---- MODULE Spec2Model ----
(***************************************************************************)
(* One invocation of baudrate.c (`prog device [output [input]]`) against   *)
(* a serial device.  The program state is main()'s locals and its position *)
(* (pc); the device state is the kernel's termios settings (ktio) and its  *)
(* serial_struct sideband (kser).  Every ioctl is one step; its outcome    *)
(* (success or failure) is chosen by the environment at each call.         *)
(*                                                                         *)
(* The preprocessor conditionals of the source are the two capability      *)
(* flags hasBOTHER (BOTHER / TCGETS2 / TCSETS2: extended termios) and      *)
(* hasIBSHIFT (split input field), fixed for a run.                        *)
(*                                                                         *)
(* c_cflag is kept as its fields: cbaud = c_cflag & CBAUD, ibaud =         *)
(* (c_cflag >> IBSHIFT) & CBAUD, other = the remaining bits.  serial       *)
(* flags are kept as spd = flags & ASYNC_SPD_MASK and oflags = the rest.   *)
(***************************************************************************)
EXTENDS Integers, Sequences, FiniteSets, TLC

VARIABLES
    hasBOTHER,      \* #ifdef BOTHER / TCGETS2 / TCSETS2
    hasIBSHIFT,     \* #ifdef IBSHIFT
    argc,           \* main's argc
    argOut,         \* atoi(argv[2]) as unsigned int
    argIn,          \* atoi(argv[3]) as unsigned int
    pc,             \* position in main
    tio,            \* local struct termios(2) tio
    ser,            \* local struct serial_struct ser
    n,              \* local unsigned int n
    bn,             \* local tcflag_t bn
    ktio,           \* device: termios settings held by the kernel
    kser,           \* device: serial_struct held by the kernel
    fdOpen,         \* the descriptor is open
    closes,         \* number of close(fd) calls made
    exitStatus,     \* -1 while running, else the exit status
    diag,           \* the diagnostic written to stderr ("" if none)
    outLine,        \* value printed as output baud rate (NotPrinted before)
    inLine,         \* value printed as input baud rate (NotPrinted before)
    log,            \* history: the ioctls issued, in order, with their outcome
    setArg,         \* history: the termios passed to TCSETS(2) (NoTio before)
    kernelKept,     \* history: the kernel kept its old rates on TCSETS(2)
    ktio0,          \* history: device termios at program start
    kser0           \* history: device sideband at program start

vars == << hasBOTHER, hasIBSHIFT, argc, argOut, argIn, pc, tio, ser, n, bn,
           ktio, kser, fdOpen, closes, exitStatus, diag, outLine, inLine,
           log, setArg, kernelKept, ktio0, kser0 >>

(***************************************************************************)
(* Kernel header values (asm/termbits.h, linux/serial.h), generic arch.    *)
(***************************************************************************)
B0 == 0
B9600 == 13
B38400 == 15
BOTHER == 4096
ASYNC_SPD_HI == 16
ASYNC_SPD_VHI == 32
ASYNC_SPD_CUST == 48
ASYNC_SPD_SHI == 4096
ASYNC_SPD_WARP == 4112
\* (unsigned int)-1, the "unknown" rate.  Every other unsigned value of the
\* model is below 2^31 (atoi returns an int, here a non-negative one), so no
\* sum of the program wraps and -1 stands for the one value above that range.
UINT_MAX == -1

\* static map[]: (bn, n) pairs, in the order of the source (non-SPARC branch)
map ==
    << <<0, 0>>, <<1, 50>>, <<2, 75>>, <<3, 110>>, <<4, 134>>, <<5, 150>>,
       <<6, 200>>, <<7, 300>>, <<8, 600>>, <<9, 1200>>, <<10, 1800>>,
       <<11, 2400>>, <<12, 4800>>, <<13, 9600>>, <<14, 19200>>, <<15, 38400>>,
       <<4097, 57600>>, <<4098, 115200>>, <<4099, 230400>>, <<4100, 460800>>,
       <<4101, 500000>>, <<4102, 576000>>, <<4103, 921600>>,
       <<4104, 1000000>>, <<4105, 1152000>>, <<4106, 1500000>>,
       <<4107, 2000000>>, <<4108, 2500000>>, <<4109, 3000000>>,
       <<4110, 3500000>>, <<4111, 4000000>> >>

RECURSIVE ScanN(_, _)
ScanN(i, r) ==
    IF i > Len(map) THEN B0
    ELSE IF map[i][2] = r THEN map[i][1]
    ELSE ScanN(i + 1, r)

\* map_n_to_bn: first table entry with that rate, B0 when there is none
map_n_to_bn(r) == ScanN(1, r)

RECURSIVE ScanBn(_, _)
ScanBn(i, b) ==
    IF i > Len(map) THEN UINT_MAX
    ELSE IF map[i][1] = b THEN map[i][2]
    ELSE ScanBn(i + 1, b)

\* map_bn_to_n: first table entry with that constant, (unsigned)-1 when none
map_bn_to_n(b) == ScanBn(1, b)

\* get_spd_B38400_alias, given the outcome of its TIOCGSERIAL and the
\* serial_struct it read
get_spd_B38400_alias_Truncating(ok, s) ==
    IF ~ok \/ s.spd = 0 THEN 38400
    ELSE IF s.spd = ASYNC_SPD_CUST /\ s.custom_divisor = 0 THEN 38400
    ELSE IF s.spd = ASYNC_SPD_HI THEN 56000
    ELSE IF s.spd = ASYNC_SPD_VHI THEN 115200
    ELSE IF s.spd = ASYNC_SPD_SHI THEN 230400
    ELSE IF s.spd = ASYNC_SPD_WARP THEN 460800
    ELSE IF s.spd = ASYNC_SPD_CUST THEN s.baud_base \div s.custom_divisor
    ELSE UINT_MAX

\* get_spd_B38400_alias with ASYNC_SPD_HI taken as 57600
get_spd_B38400_alias_Hi57600(ok, s) ==
    IF ~ok THEN 38400
    ELSE IF s.spd = 0 THEN 38400
    ELSE IF s.spd = ASYNC_SPD_CUST /\ s.custom_divisor = 0 THEN 38400
    ELSE IF s.spd = ASYNC_SPD_HI THEN 57600
    ELSE IF s.spd = ASYNC_SPD_VHI THEN 115200
    ELSE IF s.spd = ASYNC_SPD_SHI THEN 230400
    ELSE IF s.spd = ASYNC_SPD_WARP THEN 460800
    ELSE IF s.spd = ASYNC_SPD_CUST
        THEN (s.baud_base + s.custom_divisor \div 2) \div s.custom_divisor
    ELSE UINT_MAX

get_spd_B38400_alias(ok, s) ==
    IF ~ok THEN 38400
    ELSE IF s.spd = 0 THEN 38400
    ELSE IF s.spd = ASYNC_SPD_CUST /\ s.custom_divisor = 0 THEN 38400
    ELSE IF s.spd = ASYNC_SPD_HI THEN 56000
    ELSE IF s.spd = ASYNC_SPD_VHI THEN 115200
    ELSE IF s.spd = ASYNC_SPD_SHI THEN 230400
    ELSE IF s.spd = ASYNC_SPD_WARP THEN 460800
    ELSE IF s.spd = ASYNC_SPD_CUST
        THEN (s.baud_base + s.custom_divisor \div 2) \div s.custom_divisor
    ELSE UINT_MAX

(***************************************************************************)
(* Bounds of the model                                                     *)
(***************************************************************************)
MaxRates == 5      \* how many of RateList are tried as arguments
MaxSerial == 2     \* how many of SerialList are tried as device sidebands
MaxTermios == 4    \* how many of TermiosList are tried as device settings

Min(a, b) == IF a < b THEN a ELSE b

RateList == << 0, 9600, 38400, 250000, 10473, 2147483647, 115200 >>
ArgRates == { RateList[i] : i \in 1..Min(MaxRates, Len(RateList)) }

\* (baud_base, custom_divisor) of the device at start
SerialList == << <<115200, 0>>, <<1500000, 6>>, <<0, 3>>, <<115200, 1>> >>
SerialPairs == { SerialList[i] : i \in 1..Min(MaxSerial, Len(SerialList)) }

SpdValues == { 0, ASYNC_SPD_HI, ASYNC_SPD_VHI, ASYNC_SPD_CUST, ASYNC_SPD_SHI,
               ASYNC_SPD_WARP, 4128, 4144 }

\* (cbaud, ibaud, rate of a BOTHER field) of the device at start
TermiosList == << <<13, 0, 0>>, <<15, 0, 0>>, <<4098, 15, 0>>,
                  <<4096, 0, 250000>>, <<15, 13, 0>> >>
TermiosTriples ==
    { TermiosList[i] : i \in 1..Min(MaxTermios, Len(TermiosList)) }

NotPrinted == -2
NoTio == [cbaud |-> -1, ibaud |-> -1, ospeed |-> -1, ispeed |-> -1,
          other |-> -1]
NoSer == [spd |-> 0, oflags |-> 0, custom_divisor |-> 0, baud_base |-> 0]

\* the rate a baud field stands for in the kernel (speed: its explicit field)
FieldRate(b, speed) == IF b = BOTHER THEN speed ELSE map_bn_to_n(b)

\* device settings at start: what TCGETS(2) returns for the triple
StartTermios(t, ext, split) ==
    LET ib == IF split THEN t[2] ELSE B0
        os == FieldRate(t[1], t[3])
    IN  [cbaud |-> t[1], ibaud |-> ib,
         ospeed |-> IF ext THEN os ELSE 0,
         ispeed |-> IF ~ext THEN 0
                    ELSE IF ib = B0 THEN os ELSE FieldRate(ib, t[3]),
         other |-> 176]

Init ==
    /\ hasBOTHER \in BOOLEAN
    /\ hasIBSHIFT \in BOOLEAN
    /\ argc \in 1..4
    /\ argOut \in (IF argc >= 3 THEN ArgRates ELSE {0})
    /\ argIn \in (IF argc >= 4 THEN ArgRates ELSE {0})
    /\ pc = "start"
    /\ \E t \in TermiosTriples :
          ktio = StartTermios(t, hasBOTHER, hasIBSHIFT)
    /\ \E s \in SpdValues, p \in SerialPairs :
          kser = [spd |-> s, oflags |-> 8192, custom_divisor |-> p[2],
                  baud_base |-> p[1]]
    /\ tio = NoTio
    /\ ser = NoSer
    /\ n = 0
    /\ bn = 0
    /\ fdOpen = FALSE
    /\ closes = 0
    /\ exitStatus = -1
    /\ diag = ""
    /\ outLine = NotPrinted
    /\ inLine = NotPrinted
    /\ log = << >>
    /\ setArg = NoTio
    /\ kernelKept = FALSE
    /\ ktio0 = ktio
    /\ kser0 = kser


(***************************************************************************)
(* Steps of main                                                           *)
(***************************************************************************)
Logged(op, ok) == Append(log, [op |-> op, ok |-> ok])

\* exit(EXIT_FAILURE) after a diagnostic, the descriptor left open
Fail_NoClose(msg) ==
    /\ diag' = msg
    /\ exitStatus' = 1
    /\ pc' = "exited"
    /\ UNCHANGED << fdOpen, closes >>

\* close(fd); exit(EXIT_FAILURE) after a diagnostic on stderr
Fail(msg) ==
    /\ diag' = msg
    /\ fdOpen' = FALSE
    /\ closes' = closes + 1
    /\ exitStatus' = 1
    /\ pc' = "exited"

\* argc is none of 2, 3, 4: usage message, exit before the device is opened
Usage ==
    /\ pc = "start"
    /\ argc # 2 /\ argc # 3 /\ argc # 4
    /\ diag' = "usage"
    /\ exitStatus' = 1
    /\ pc' = "exited"
    /\ UNCHANGED << hasBOTHER, hasIBSHIFT, argc, argOut, argIn, tio, ser, n,
                    bn, ktio, kser, fdOpen, closes, outLine, inLine, log,
                    setArg, kernelKept, ktio0, kser0 >>

\* fd = open(argv[1], ...)
Open ==
    /\ pc = "start"
    /\ ~(argc # 2 /\ argc # 3 /\ argc # 4)
    /\ \E ok \in BOOLEAN :
          IF ok
          THEN /\ fdOpen' = TRUE
               /\ pc' = "tcgets"
               /\ UNCHANGED << diag, exitStatus >>
          ELSE /\ diag' = "open"
               /\ exitStatus' = 1
               /\ pc' = "exited"
               /\ UNCHANGED fdOpen
    /\ UNCHANGED << hasBOTHER, hasIBSHIFT, argc, argOut, argIn, tio, ser, n,
                    bn, ktio, kser, closes, outLine, inLine, log, setArg,
                    kernelKept, ktio0, kser0 >>

\* where main goes once the settings are read: the rates are set only when
\* a rate is given (argc is 3 or 4)
AfterSettingsRead_AlwaysSets(ac) == "output"

AfterSettingsRead(ac) == IF ac = 3 \/ ac = 4 THEN "output" ELSE "report"

\* the first TCGETS(2): the current settings of the port
TcgetsInitial ==
    /\ pc = "tcgets"
    /\ \E ok \in BOOLEAN :
          /\ log' = Logged("TCGETS", ok)
          /\ IF ok
             THEN /\ tio' = ktio
                  /\ pc' = AfterSettingsRead(argc)
                  /\ UNCHANGED << diag, fdOpen, closes, exitStatus >>
             ELSE /\ Fail("TCGETS")
                  /\ UNCHANGED tio
    /\ UNCHANGED << hasBOTHER, hasIBSHIFT, argc, argOut, argIn, ser, n, bn,
                    ktio, kser, outLine, inLine, setArg, kernelKept, ktio0,
                    kser0 >>

\* bn of the output rate before any alias is installed: the Bnnn constant
\* when the table has one, BOTHER (when defined) for a non-standard rate
OutputConstant_AlwaysBother(r, b, ext) ==
    IF r # 0 /\ ext THEN BOTHER ELSE b

OutputConstant(r, b, ext) ==
    IF r # 0 /\ b = B0 /\ ext THEN BOTHER ELSE b

\* the encoding of the output rate: where main goes after map_n_to_bn
OutputBranch(r, b, ext) ==
    IF r # 0 /\ b = B0
    THEN (IF ext THEN "encode" ELSE "install_get")
    ELSE IF r = 38400 THEN "clear_get"
    ELSE "encode"

\* n = atoi(argv[2]); bn = map_n_to_bn(n); choice of the encoding
ChooseOutput ==
    /\ pc = "output"
    /\ n' = argOut
    /\ LET b == map_n_to_bn(argOut)
       IN  /\ bn' = OutputConstant(argOut, b, hasBOTHER)
           /\ pc' = OutputBranch(argOut, b, hasBOTHER)
    /\ UNCHANGED << hasBOTHER, hasIBSHIFT, argc, argOut, argIn, tio, ser,
                    ktio, kser, fdOpen, closes, exitStatus, diag, outLine,
                    inLine, log, setArg, kernelKept, ktio0, kser0 >>

\* custom_divisor = (ser.baud_base + n/2) / n
AliasDivisor_Truncating(base, r) == base \div r

AliasDivisor(base, r) == (base + r \div 2) \div r

\* the serial_struct written to install the B38400 alias for rate r
AliasInstalled(s, r) ==
    [s EXCEPT !.spd = ASYNC_SPD_CUST,
              !.custom_divisor = AliasDivisor(s.baud_base, r)]

\* the serial_struct written to clear the B38400 alias
AliasCleared_KeepsDivisor(s) == [s EXCEPT !.spd = 0]

AliasCleared(s) == [s EXCEPT !.spd = 0, !.custom_divisor = 0]

\* without BOTHER, non-standard rate: TIOCGSERIAL before installing the alias
InstallAliasGet ==
    /\ pc = "install_get"
    /\ \E ok \in BOOLEAN :
          /\ log' = Logged("TIOCGSERIAL", ok)
          /\ IF ok
             THEN /\ ser' = AliasInstalled(kser, n)
                  /\ bn' = B38400
                  /\ pc' = "install_set"
                  /\ UNCHANGED << diag, fdOpen, closes, exitStatus >>
             ELSE /\ Fail("unsupported")
                  /\ UNCHANGED << ser, bn >>
    /\ UNCHANGED << hasBOTHER, hasIBSHIFT, argc, argOut, argIn, tio, n, ktio,
                    kser, outLine, inLine, setArg, kernelKept, ktio0, kser0 >>

\* TIOCSSERIAL of ser, then the common path of main
SerialSet_Retries ==
    /\ \E ok \in BOOLEAN :
          /\ log' = Logged("TIOCSSERIAL", ok)
          /\ IF ok
             THEN /\ kser' = ser
                  /\ pc' = "encode"
                  /\ UNCHANGED << diag, fdOpen, closes, exitStatus >>
             ELSE IF \A i \in 1..Len(log) : log[i].op # "TIOCSSERIAL"
             THEN UNCHANGED << kser, pc, diag, fdOpen, closes, exitStatus >>
             ELSE /\ Fail("TIOCSSERIAL")
                  /\ UNCHANGED kser
    /\ UNCHANGED << hasBOTHER, hasIBSHIFT, argc, argOut, argIn, tio, ser, n,
                    bn, ktio, outLine, inLine, setArg, kernelKept, ktio0,
                    kser0 >>

SerialSet ==
    /\ \E ok \in BOOLEAN :
          /\ log' = Logged("TIOCSSERIAL", ok)
          /\ IF ok
             THEN /\ kser' = ser
                  /\ pc' = "encode"
                  /\ UNCHANGED << diag, fdOpen, closes, exitStatus >>
             ELSE /\ Fail("TIOCSSERIAL")
                  /\ UNCHANGED kser
    /\ UNCHANGED << hasBOTHER, hasIBSHIFT, argc, argOut, argIn, tio, ser, n,
                    bn, ktio, outLine, inLine, setArg, kernelKept, ktio0,
                    kser0 >>

\* TIOCSSERIAL installing the alias
InstallAliasSet ==
    /\ pc = "install_set"
    /\ SerialSet

\* n == 38400: TIOCGSERIAL, to see whether an alias is set
ClearAliasGet ==
    /\ pc = "clear_get"
    /\ \E ok \in BOOLEAN :
          /\ log' = Logged("TIOCGSERIAL", ok)
          /\ IF ok
             THEN IF kser.spd # 0
                  THEN /\ ser' = AliasCleared(kser)
                       /\ pc' = "clear_set"
                  ELSE /\ ser' = kser
                       /\ pc' = "encode"
             ELSE /\ pc' = "encode"
                  /\ UNCHANGED ser
    /\ UNCHANGED << hasBOTHER, hasIBSHIFT, argc, argOut, argIn, tio, n, bn,
                    ktio, kser, fdOpen, closes, exitStatus, diag, outLine,
                    inLine, setArg, kernelKept, ktio0, kser0 >>

\* TIOCSSERIAL clearing the alias
ClearAliasSet ==
    /\ pc = "clear_set"
    /\ SerialSet

\* tio.c_cflag &= ~CBAUD; tio.c_cflag |= bn; tio.c_ospeed = n (with BOTHER)
WithOutput(t, b, r, ext) ==
    [t EXCEPT !.cbaud = b, !.ospeed = IF ext THEN r ELSE @]

\* The input request without the test for a zero input rate
InputRequest_NoZeroCheck(t, b, r, ext, ac, aOut, aIn) ==
    IF ac # 4 THEN [err |-> "", n |-> r, bn |-> b]
    ELSE LET m == map_n_to_bn(aIn)
             nonstd == aIn # 0 /\ m = B0
             b1 == IF nonstd THEN (IF ext THEN BOTHER ELSE B38400) ELSE m
         IN  IF nonstd /\ ~ext /\ aIn # aOut
             THEN [err |-> "input_unsupported", n |-> aIn, bn |-> m]
             ELSE [err |-> "", n |-> aIn, bn |-> b1]

\* The input request: n and bn as they stand when the input field is filled,
\* or the diagnostic of the check that rejects the request (err).  t is tio
\* with the output rate filled in; b, r are bn, n of the output rate.
InputRequest(t, b, r, ext, ac, aOut, aIn) ==
    IF ac # 4 THEN [err |-> "", n |-> r, bn |-> b]
    ELSE LET m == map_n_to_bn(aIn)
             nonstd == aIn # 0 /\ m = B0
             b1 == IF nonstd THEN (IF ext THEN BOTHER ELSE B38400) ELSE m
         IN  IF nonstd /\ ~ext /\ aIn # aOut
             THEN [err |-> "input_unsupported", n |-> aIn, bn |-> m]
             ELSE IF t.cbaud # B0 /\ aIn = 0
             THEN (IF ext THEN [err |-> "", n |-> aIn, bn |-> BOTHER]
                   ELSE [err |-> "zero_input", n |-> aIn, bn |-> b1])
             ELSE [err |-> "", n |-> aIn, bn |-> b1]

\* the input rate differs from the output rate, as main tests it
RatesDiffer(t, b, r, ext) ==
    \/ t.cbaud # b
    \/ (ext /\ b = BOTHER /\ t.ospeed # r)

\* the input field set to bn (split rates)
WithInput(t, b, r, ext) ==
    [t EXCEPT !.ibaud = b, !.ispeed = IF ext THEN r ELSE @]

\* the input field set to B0: input rate follows the output rate
WithMirror_KeepsField(t, ext) == t

WithMirror(t, ext) ==
    [t EXCEPT !.ibaud = B0, !.ispeed = IF ext THEN 0 ELSE @]

\* Fill the output rate and the input rate into tio, up to the TCSETS(2) call
Encode ==
    /\ pc = "encode"
    /\ LET t1 == WithOutput(tio, bn, n, hasBOTHER)
           rq == InputRequest(t1, bn, n, hasBOTHER, argc, argOut, argIn)
       IN  /\ n' = rq.n
           /\ bn' = rq.bn
           /\ IF rq.err # ""
              THEN /\ Fail(rq.err)
                   /\ tio' = t1
              ELSE IF RatesDiffer(t1, rq.bn, rq.n, hasBOTHER)
              THEN IF hasIBSHIFT
                   THEN /\ tio' = WithInput(t1, rq.bn, rq.n, hasBOTHER)
                        /\ pc' = "tcsets"
                        /\ UNCHANGED << diag, fdOpen, closes, exitStatus >>
                   ELSE /\ Fail("split")
                        /\ tio' = t1
              ELSE /\ tio' = IF hasIBSHIFT THEN WithMirror(t1, hasBOTHER)
                             ELSE t1
                   /\ pc' = "tcsets"
                   /\ UNCHANGED << diag, fdOpen, closes, exitStatus >>
    /\ UNCHANGED << hasBOTHER, hasIBSHIFT, argc, argOut, argIn, ser, ktio,
                    kser, outLine, inLine, log, setArg, kernelKept, ktio0,
                    kser0 >>

\* What the kernel holds after accepting the settings t: the fields as given,
\* c_ospeed and c_ispeed filled with the rates of the two fields (B0 in the
\* input field: the output rate)
KernelAccepts(t, ext) ==
    IF ~ext THEN t
    ELSE [t EXCEPT !.ispeed = IF t.ibaud = B0 THEN t.ospeed ELSE @]

\* What the kernel holds when the driver refuses the rates of t: the old
\* rates, everything else as given
KernelKeeps(t, old) ==
    [t EXCEPT !.cbaud = old.cbaud, !.ibaud = old.ibaud,
              !.ospeed = old.ospeed, !.ispeed = old.ispeed]

\* TCSETS(2) of tio
Tcsets_IgnoresFailure ==
    /\ pc = "tcsets"
    /\ setArg' = tio
    /\ \E ok \in BOOLEAN :
          /\ log' = Logged("TCSETS", ok)
          /\ ktio' = IF ok THEN KernelAccepts(tio, hasBOTHER) ELSE ktio
          /\ kernelKept' = FALSE
          /\ pc' = "readback"
    /\ UNCHANGED << hasBOTHER, hasIBSHIFT, argc, argOut, argIn, tio, ser, n,
                    bn, kser, outLine, inLine, ktio0, kser0, diag, fdOpen,
                    closes, exitStatus >>

Tcsets ==
    /\ pc = "tcsets"
    /\ setArg' = tio
    /\ \E ok \in BOOLEAN, kept \in BOOLEAN :
          /\ log' = Logged("TCSETS", ok)
          /\ IF ok
             THEN /\ ktio' = IF kept THEN KernelKeeps(tio, ktio)
                             ELSE KernelAccepts(tio, hasBOTHER)
                  /\ kernelKept' = (ktio' # KernelAccepts(tio, hasBOTHER))
                  /\ pc' = "readback"
                  /\ UNCHANGED << diag, fdOpen, closes, exitStatus >>
             ELSE /\ ~kept
                  /\ Fail("TCSETS")
                  /\ UNCHANGED << ktio, kernelKept >>
    /\ UNCHANGED << hasBOTHER, hasIBSHIFT, argc, argOut, argIn, tio, ser, n,
                    bn, kser, outLine, inLine, ktio0, kser0 >>

\* what the second TCGETS(2) leaves in tio: the device's settings k
Snapshot_KeepsLocal(k, t) == t

Snapshot(k, t) == k

\* the second TCGETS(2): the values which were really configured
TcgetsReadback ==
    /\ pc = "readback"
    /\ \E ok \in BOOLEAN :
          /\ log' = Logged("TCGETS", ok)
          /\ IF ok
             THEN /\ tio' = Snapshot(ktio, tio)
                  /\ pc' = "report"
                  /\ UNCHANGED << diag, fdOpen, closes, exitStatus >>
             ELSE /\ Fail("TCGETS")
                  /\ UNCHANGED tio
    /\ UNCHANGED << hasBOTHER, hasIBSHIFT, argc, argOut, argIn, ser, n, bn,
                    ktio, kser, outLine, inLine, setArg, kernelKept, ktio0,
                    kser0 >>

\* the baud field the output rate is read from
OutputField(t) == t.cbaud

\* the input rate read from the shifted field even when it holds B0
InputField_NoFallback(t, split) ==
    IF split THEN t.ibaud ELSE t.cbaud

\* the baud field the input rate is read from
InputField(t, split) ==
    IF split /\ t.ibaud # B0 THEN t.ibaud ELSE t.cbaud

\* the rate read from the snapshot before alias resolution
SnapshotRate(b, speed, ext) == IF ext THEN speed ELSE map_bn_to_n(b)

\* the rate reported for field b: the alias when the field is B38400
Reported(b, speed, ext, ok, s) ==
    IF b = B38400 THEN get_spd_B38400_alias(ok, s)
    ELSE SnapshotRate(b, speed, ext)

\* Report of one direction; a B38400 field issues the resolver's TIOCGSERIAL
Report(b, speed, line) ==
    /\ bn' = b
    /\ IF b = B38400
       THEN \E ok \in BOOLEAN :
               /\ log' = Logged("TIOCGSERIAL", ok)
               /\ n' = Reported(b, speed, hasBOTHER, ok, kser)
       ELSE /\ n' = Reported(b, speed, hasBOTHER, TRUE, kser)
            /\ UNCHANGED log
    /\ line' = n'

\* printf("output baud rate: ...")
ReportOutput ==
    /\ pc = "report"
    /\ Report(OutputField(tio), tio.ospeed, outLine)
    /\ pc' = "report_in"
    /\ UNCHANGED << hasBOTHER, hasIBSHIFT, argc, argOut, argIn, tio, ser,
                    ktio, kser, fdOpen, closes, exitStatus, diag, inLine,
                    setArg, kernelKept, ktio0, kser0 >>

\* printf("input baud rate: ..."); close(fd); exit(EXIT_SUCCESS)
ReportInput ==
    /\ pc = "report_in"
    /\ Report(InputField(tio, hasIBSHIFT), tio.ispeed, inLine)
    /\ fdOpen' = FALSE
    /\ closes' = closes + 1
    /\ exitStatus' = 0
    /\ pc' = "exited"
    /\ UNCHANGED << hasBOTHER, hasIBSHIFT, argc, argOut, argIn, tio, ser,
                    ktio, kser, diag, outLine, setArg, kernelKept, ktio0,
                    kser0 >>

Next ==
    \/ Usage
    \/ Open
    \/ TcgetsInitial
    \/ ChooseOutput
    \/ InstallAliasGet
    \/ InstallAliasSet
    \/ ClearAliasGet
    \/ ClearAliasSet
    \/ Encode
    \/ Tcsets
    \/ TcgetsReadback
    \/ ReportOutput
    \/ ReportInput

Spec == Init /\ [][Next]_vars

\* The process is scheduled until it exits: no statement of main waits for
\* another process
FairSpec == Spec /\ WF_vars(Next)

(***************************************************************************)
(* Vocabulary of the properties                                            *)
(***************************************************************************)
\* the rate has an entry in the table
InTable(r) == \E i \in 1..Len(map) : map[i][2] = r

\* the constant the table pairs with a rate it holds
ConstantOf(r) == map[CHOOSE i \in 1..Len(map) : map[i][2] = r][1]

Configures == argc = 3 \/ argc = 4
SetIssued == setArg # NoTio
Succeeded == pc = "exited" /\ exitStatus = 0

\* the requested input rate: the output rate when no input argument is given
RequestedIn == IF argc = 4 THEN argIn ELSE argOut

\* the i-th ioctl of the run was issued by the alias resolver (the report):
\* it is a TIOCGSERIAL after the last termios ioctl of the run
IsResolverRead(i) ==
    /\ log[i].op = "TIOCGSERIAL"
    /\ IF Configures THEN \E j \in 1..(i - 1) : log[j].op = "TCSETS"
       ELSE i > 1

\* the i-th ioctl of the run is configure's TIOCGSERIAL for output rate 38400
IsClearRead(i) ==
    /\ log[i].op = "TIOCGSERIAL"
    /\ Configures /\ argOut = 38400
    /\ \A j \in 1..(i - 1) : log[j].op # "TCSETS"

\* configure read the sideband (its second ioctl) and the read succeeded
ConfigureReadOk ==
    /\ Configures
    /\ Len(log) >= 2
    /\ log[2] = [op |-> "TIOCGSERIAL", ok |-> TRUE]

\* index of the last TCGETS(2) of the run (0 when there is none)
LastGet ==
    LET gets == { i \in 1..Len(log) : log[i].op = "TCGETS" }
    IN  IF gets = {} THEN 0 ELSE CHOOSE i \in gets : \A j \in gets : j <= i

\* the ioctls issued while reporting: the resolver's TIOCGSERIAL calls
ReportReads == SubSeq(log, LastGet + 1, Len(log))

\* outcome of the resolver's read for the output rate, for the input rate
\* (a direction whose field is not B38400 issues none)
OutReadOk == ReportReads[1].ok
InReadOk == ReportReads[IF OutputField(tio) = B38400 THEN 2 ELSE 1].ok

\* the custom_divisor and the rate the alias round trip is claimed to give
RoundedDivisor(base, r) == (base + r \div 2) \div r

Count(op) == Cardinality({ i \in 1..Len(log) : log[i].op = op })

(***************************************************************************)
(* C1  Encoding preference.  The termios passed to TCSETS(2) carries, in   *)
(* CBAUD, the table's constant for every requested output rate the table   *)
(* holds, and never BOTHER for such a rate, whatever the capabilities;     *)
(* BOTHER is in CBAUD only for a non-zero rate absent from the table; a    *)
(* requested rate of 0 gives B0.                                           *)
(***************************************************************************)
C1_EncodingPreference ==
    SetIssued =>
        /\ (InTable(argOut) =>
                /\ setArg.cbaud = ConstantOf(argOut)
                /\ setArg.cbaud # BOTHER)
        /\ (setArg.cbaud = BOTHER => argOut # 0 /\ ~InTable(argOut))
        /\ (argOut = 0 => setArg.cbaud = B0)

\* a standard rate written as its constant on a build that has BOTHER
C1_Witness ==
    /\ SetIssued
    /\ hasBOTHER
    /\ argOut = 9600
    /\ setArg.cbaud = B9600
    /\ ktio0.cbaud # B9600

(***************************************************************************)
(* C2  Readback authority.  A configure run that reaches the report has    *)
(* had its TCSETS(2) succeed and a later TCGETS(2) succeed; tio then holds *)
(* the device's settings as they are after the write, and each printed     *)
(* rate is the one those settings give (the resolver's answer for a        *)
(* B38400 field), whatever was requested and whatever the port held at     *)
(* the start.                                                              *)
(***************************************************************************)
C2_ReadbackAuthority ==
    (Configures /\ (pc \in {"report", "report_in"} \/ Succeeded))
    =>
        /\ \E i \in 1..Len(log), j \in 1..Len(log) :
              /\ i < j
              /\ log[i] = [op |-> "TCSETS", ok |-> TRUE]
              /\ log[j] = [op |-> "TCGETS", ok |-> TRUE]
        /\ tio = ktio
        /\ (outLine # NotPrinted) =>
              outLine = IF ktio.cbaud = B38400
                        THEN get_spd_B38400_alias(OutReadOk, kser)
                        ELSE IF hasBOTHER THEN ktio.ospeed
                        ELSE map_bn_to_n(ktio.cbaud)
        /\ (inLine # NotPrinted) =>
              LET f == IF hasIBSHIFT /\ ktio.ibaud # B0 THEN ktio.ibaud
                       ELSE ktio.cbaud
              IN  inLine = IF f = B38400
                           THEN get_spd_B38400_alias(InReadOk, kser)
                           ELSE IF hasBOTHER THEN ktio.ispeed
                           ELSE map_bn_to_n(f)

\* the kernel kept another rate than the requested one, and that is printed
C2_Witness ==
    /\ Configures /\ Succeeded
    /\ kernelKept
    /\ argOut = 9600
    /\ outLine = 115200
    /\ inLine # RequestedIn

(***************************************************************************)
(* C3  Alias clearing.  Output rate 38400 requested, configure's           *)
(* TIOCGSERIAL succeeded and showed flags & ASYNC_SPD_MASK != 0, and the   *)
(* run succeeded: the device's sideband then has no ASYNC_SPD flag and     *)
(* custom_divisor 0, its other fields are as they were, and (the kernel    *)
(* having taken the written settings) the printed output rate is 38400.    *)
(***************************************************************************)
C3_AliasClearing ==
    (Succeeded /\ Configures /\ argOut = 38400 /\ ConfigureReadOk
       /\ kser0.spd # 0)
    =>
        /\ kser.spd = 0
        /\ kser.custom_divisor = 0
        /\ kser.baud_base = kser0.baud_base
        /\ kser.oflags = kser0.oflags
        /\ (~kernelKept => outLine = 38400)

\* an ASYNC_SPD_VHI alias with a divisor set was cleared and 38400 printed
C3_Witness ==
    /\ Succeeded /\ Configures /\ argOut = 38400 /\ ConfigureReadOk
    /\ kser0.spd = ASYNC_SPD_VHI
    /\ kser0.custom_divisor # 0
    /\ kser.spd = 0
    /\ ~kernelKept
    /\ outLine = 38400

(***************************************************************************)
(* C4  Alias round trip.  No BOTHER, a non-zero non-standard output rate n *)
(* installed as ASYNC_SPD_CUST with d = (baud_base + n/2) / n, the run     *)
(* succeeded with the kernel taking the settings and the resolver's read   *)
(* succeeding.  As claimed: the printed output rate is                     *)
(* (baud_base + d/2) / d (C4_Original; the quotient needs d # 0).          *)
(* As amended (C4_AliasRoundTrip): it is (baud_base + d/2) / d when        *)
(* d # 0, and 38400 when d = 0.                                            *)
(***************************************************************************)
C4_Installed ==
    /\ Succeeded /\ Configures /\ ~hasBOTHER
    /\ argOut # 0 /\ ~InTable(argOut)
    /\ ~kernelKept
    /\ OutReadOk

C4_Original ==
    C4_Installed =>
        LET d == RoundedDivisor(kser0.baud_base, argOut)
        IN  /\ d # 0
            /\ outLine = (kser0.baud_base + d \div 2) \div d

C4_AliasRoundTrip ==
    C4_Installed =>
        LET d == RoundedDivisor(kser0.baud_base, argOut)
        IN  outLine = IF d = 0 THEN 38400
                      ELSE (kser0.baud_base + d \div 2) \div d

\* a round trip through a non-zero divisor that does not give n back
C4_Witness ==
    /\ C4_Installed
    /\ RoundedDivisor(kser0.baud_base, argOut) = 143
    /\ kser.custom_divisor = 143
    /\ outLine = 10490
    /\ argOut = 10473

(***************************************************************************)
(* C5  Mirror semantics.  With IBSHIFT, when the requested input rate is   *)
(* the requested output rate (no input argument, or the same integer), the *)
(* termios passed to TCSETS(2) has B0 in the input field and, with BOTHER, *)
(* c_ispeed = 0.                                                           *)
(***************************************************************************)
C5_MirrorSemantics ==
    (SetIssued /\ hasIBSHIFT /\ RequestedIn = argOut)
    =>
        /\ setArg.ibaud = B0
        /\ (hasBOTHER => setArg.ispeed = 0)

\* the same non-standard rate given twice, on a port that had split rates
C5_Witness ==
    /\ SetIssued /\ hasIBSHIFT /\ hasBOTHER
    /\ argc = 4 /\ argIn = argOut /\ argOut = 250000
    /\ ktio0.ibaud # B0
    /\ setArg.ibaud = B0
    /\ setArg.ispeed = 0

\* configure takes the legacy path: no BOTHER, non-zero non-standard output
LegacyInstall ==
    /\ Configures /\ ~hasBOTHER
    /\ argOut # 0 /\ ~InTable(argOut)

(***************************************************************************)
(* C6  Split rates unsupported, as claimed: without IBSHIFT, a request     *)
(* whose input rate differs from its output rate never reaches TCSETS(2)   *)
(* and never exits with status 0.  The code breaks this for a              *)
(* non-standard output rate carried by the B38400 alias with input 38400.  *)
(***************************************************************************)
C6_SplitRatesRejected ==
    (~hasIBSHIFT /\ argc = 4 /\ argIn # argOut)
    => (~SetIssued /\ exitStatus # 0)

(***************************************************************************)
(* C7  Failure semantics.  As claimed (C7_Original): every failed ioctl    *)
(* other than the resolver's TIOCGSERIAL is the last ioctl of the run and  *)
(* the run exits with status 1 and prints no rate.  As amended             *)
(* (C7_FailureSemantics): the same, with a second tolerated failure, the   *)
(* TIOCGSERIAL configure issues for output rate 38400.                     *)
(***************************************************************************)
Fatal(i) ==
    /\ i = Len(log)
    /\ pc = "exited"
    /\ exitStatus = 1
    /\ outLine = NotPrinted
    /\ inLine = NotPrinted

C7_Original ==
    \A i \in 1..Len(log) :
        (~log[i].ok /\ ~IsResolverRead(i)) => Fatal(i)

C7_FailureSemantics ==
    \A i \in 1..Len(log) :
        (~log[i].ok /\ ~IsResolverRead(i) /\ ~IsClearRead(i)) => Fatal(i)

\* a failed TCSETS(2) ended the run
C7_Witness ==
    /\ Len(log) >= 1
    /\ log[Len(log)] = [op |-> "TCSETS", ok |-> FALSE]
    /\ pc = "exited"
    /\ exitStatus = 1
    /\ diag = "TCSETS"

(***************************************************************************)
(* C8  Write ordering.  A run issues at most one TIOCSSERIAL and at most   *)
(* one TCSETS(2), and no TIOCSSERIAL after a TCSETS(2); so on the legacy   *)
(* install path the device never has CBAUD turned to B38400 by this run    *)
(* while its sideband lacks ASYNC_SPD_CUST.                                *)
(***************************************************************************)
C8_WriteOrdering ==
    /\ Count("TIOCSSERIAL") <= 1
    /\ Count("TCSETS") <= 1
    /\ \A i \in 1..Len(log), j \in 1..Len(log) :
          (i < j /\ log[i].op = "TCSETS") => log[j].op # "TIOCSSERIAL"
    /\ (LegacyInstall /\ ktio.cbaud = B38400 /\ ktio0.cbaud # B38400)
          => kser.spd = ASYNC_SPD_CUST

\* alias written, then termios written with B38400 on a port that had B9600
C8_Witness ==
    /\ LegacyInstall
    /\ Len(log) >= 4
    /\ log[3] = [op |-> "TIOCSSERIAL", ok |-> TRUE]
    /\ log[4] = [op |-> "TCSETS", ok |-> TRUE]
    /\ ktio0.cbaud = B9600
    /\ ktio.cbaud = B38400
    /\ kser0.spd # ASYNC_SPD_CUST
    /\ kser.spd = ASYNC_SPD_CUST

(***************************************************************************)
(* C9  Literal 38400 is not aliased, as claimed: after a successful        *)
(* configure (the kernel taking the settings, every TIOCGSERIAL            *)
(* succeeding) on a device whose sideband had an ASYNC_SPD flag, if 38400  *)
(* was requested for the output, or for the input with another output      *)
(* rate, the sideband is cleared and 38400 is printed for that direction.  *)
(* The code clears the alias for the output direction only.                *)
(***************************************************************************)
SidebandCleared == kser.spd = 0 /\ kser.custom_divisor = 0

C9_LiteralNotAliased ==
    (/\ Succeeded /\ Configures /\ ~kernelKept
     /\ kser0.spd # 0
     /\ \A i \in 1..Len(log) : log[i].op = "TIOCGSERIAL" => log[i].ok)
    =>
        /\ (argOut = 38400 => SidebandCleared /\ outLine = 38400)
        /\ (argc = 4 /\ argIn = 38400 /\ argOut # 38400)
              => (SidebandCleared /\ inLine = 38400)

(***************************************************************************)
(* C10  Legacy alias install.  No BOTHER, non-zero non-standard output     *)
(* rate n: configure's first ioctl after the initial TCGETS is             *)
(* TIOCGSERIAL.  If it succeeds the next ioctl is TIOCSSERIAL of the       *)
(* struct read, with the ASYNC_SPD field set to ASYNC_SPD_CUST and         *)
(* custom_divisor (baud_base + n/2) / n; a TCSETS(2) is issued only after  *)
(* that write succeeded, carries B38400 in CBAUD, and is always reached    *)
(* when no input rate is given.  If it fails the run ends with "baud rate  *)
(* n is unsupported", status 1, and neither write is issued.               *)
(***************************************************************************)
C10_LegacyAliasInstall ==
    (LegacyInstall /\ Len(log) >= 2)
    =>
        /\ log[2].op = "TIOCGSERIAL"
        /\ log[2].ok =>
              /\ (pc = "install_set"
                    \/ (Len(log) >= 3 /\ log[3].op = "TIOCSSERIAL"))
              /\ ser = [kser0 EXCEPT
                          !.spd = ASYNC_SPD_CUST,
                          !.custom_divisor =
                              RoundedDivisor(kser0.baud_base, argOut)]
              /\ (Len(log) >= 3 /\ log[3].ok) => kser = ser
              /\ (Len(log) >= 3 /\ ~log[3].ok)
                    => (kser = kser0 /\ ~SetIssued /\ exitStatus = 1)
              /\ SetIssued => (log[3].ok /\ setArg.cbaud = B38400)
              /\ (argc = 3 /\ pc = "exited" /\ log[3].ok) => SetIssued
        /\ ~log[2].ok =>
              /\ pc = "exited"
              /\ exitStatus = 1
              /\ diag = "unsupported"
              /\ Len(log) = 2
              /\ kser = kser0
              /\ ktio = ktio0
              /\ ~SetIssued

\* an earlier ASYNC_SPD_WARP replaced by ASYNC_SPD_CUST with a rounded-up
\* divisor, then B38400 written
C10_Witness ==
    /\ LegacyInstall
    /\ SetIssued
    /\ argOut = 10473
    /\ kser0.spd = ASYNC_SPD_WARP
    /\ kser0.baud_base = 115200
    /\ kser.spd = ASYNC_SPD_CUST
    /\ kser.custom_divisor = 11
    /\ setArg.cbaud = B38400

\* an ioctl before the input check ended the run
ZeroInFatal ==
    \E i \in 1..Len(log) :
        /\ ~log[i].ok
        /\ \/ log[i].op \in {"TCGETS", "TIOCSSERIAL"}
           \/ (log[i].op = "TIOCGSERIAL" /\ LegacyInstall)

(***************************************************************************)
(* C11  Zero input rate.  An explicit input rate 0 with a non-zero output  *)
(* rate (standard, carried by BOTHER or carried by the alias): without     *)
(* BOTHER the run never issues TCSETS(2) and never succeeds, and a run     *)
(* whose ioctls up to the input check did not end it exits with "input     *)
(* baud rate cannot be zero"; with BOTHER a TCSETS(2) that is issued       *)
(* carries BOTHER in the input field and c_ispeed 0.  Output rate 0 with   *)
(* input rate 0 is not rejected: once the settings are read, TCSETS(2)     *)
(* is issued.                                                              *)
(***************************************************************************)
C11_ZeroInputRate ==
    (argc = 4 /\ argIn = 0) =>
        /\ (argOut # 0 /\ ~hasBOTHER) =>
              /\ ~SetIssued
              /\ ~Succeeded
              /\ pc = "exited" =>
                    diag \in {"open", "TCGETS", "unsupported", "TIOCSSERIAL",
                              "zero_input"}
              /\ (pc = "exited" /\ Len(log) >= 1 /\ ~ZeroInFatal) =>
                    diag = "zero_input"
        /\ (argOut # 0 /\ hasBOTHER) =>
              /\ diag # "zero_input"
              /\ SetIssued =>
                    /\ setArg.ibaud = BOTHER
                    /\ setArg.ispeed = 0
                    /\ hasIBSHIFT
        /\ (argOut = 0) =>
              /\ diag \notin {"zero_input", "input_unsupported", "split",
                               "unsupported"}
              /\ (pc = "exited" /\ Len(log) >= 1 /\ log[1].ok) => SetIssued

\* a rate carried by BOTHER with input rate 0 was written and the run
\* succeeded
C11_Witness ==
    /\ argc = 4 /\ argIn = 0 /\ argOut = 250000
    /\ hasBOTHER
    /\ Succeeded
    /\ setArg.ibaud = BOTHER
    /\ setArg.ispeed = 0

(***************************************************************************)
(* C12  Alias resolver result.  Whatever the sideband holds, a rate        *)
(* printed for a B38400 field is: 38400 when the resolver's TIOCGSERIAL    *)
(* failed, when flags & ASYNC_SPD_MASK is 0, or when it is ASYNC_SPD_CUST  *)
(* with custom_divisor 0; otherwise 56000 for HI, 115200 for VHI, 230400   *)
(* for SHI, 460800 for WARP, (baud_base + custom_divisor/2) /              *)
(* custom_divisor for CUST, and unknown for every other mask value.  The   *)
(* division is by a non-zero divisor, and the resolver issues TIOCGSERIAL  *)
(* only: the sideband and the settings of a device that is only reported   *)
(* stay as they were.                                                      *)
(***************************************************************************)
C12_Answer(ok, s) ==
    IF ~ok \/ s.spd = 0 \/ (s.spd = ASYNC_SPD_CUST /\ s.custom_divisor = 0)
    THEN 38400
    ELSE CASE s.spd = ASYNC_SPD_HI -> 56000
           [] s.spd = ASYNC_SPD_VHI -> 115200
           [] s.spd = ASYNC_SPD_SHI -> 230400
           [] s.spd = ASYNC_SPD_WARP -> 460800
           [] s.spd = ASYNC_SPD_CUST ->
                 (s.baud_base + s.custom_divisor \div 2) \div s.custom_divisor
           [] OTHER -> UINT_MAX

C12_ResolverResult ==
    /\ (outLine # NotPrinted /\ OutputField(tio) = B38400) =>
          /\ outLine = C12_Answer(OutReadOk, kser)
          /\ (OutReadOk /\ kser.spd = ASYNC_SPD_CUST /\ outLine # 38400)
                => kser.custom_divisor # 0
    /\ (inLine # NotPrinted /\ InputField(tio, hasIBSHIFT) = B38400) =>
          inLine = C12_Answer(InReadOk, kser)
    /\ (outLine # NotPrinted) =>
          /\ \A i \in 1..Len(ReportReads) : ReportReads[i].op = "TIOCGSERIAL"
          /\ ~Configures => (kser = kser0 /\ ktio = ktio0)

\* a custom divisor resolved for both directions, the sideband left as it
\* was
C12_Witness ==
    /\ Succeeded /\ ~Configures
    /\ OutputField(tio) = B38400
    /\ OutReadOk /\ InReadOk
    /\ kser.spd = ASYNC_SPD_CUST
    /\ kser.baud_base = 1500000 /\ kser.custom_divisor = 6
    /\ outLine = 250000 /\ inLine = 250000
    /\ kser = kser0

(***************************************************************************)
(* C13  Descriptor release and termination.  Every run comes to its exit:  *)
(* each step moves main forward and the exit is reached.  The descriptor   *)
(* is never closed while main runs; at the exit of a run whose open        *)
(* succeeded it has been closed exactly once, and it was never closed when *)
(* the run ended before or at open.  Exit status 0 goes with both rate     *)
(* lines printed and no diagnostic, exit status 1 with a diagnostic.       *)
(***************************************************************************)
C13_Position(p) ==
    CASE p = "start" -> 0
      [] p = "tcgets" -> 1
      [] p = "output" -> 2
      [] p \in {"install_get", "clear_get"} -> 3
      [] p \in {"install_set", "clear_set"} -> 4
      [] p = "encode" -> 5
      [] p = "tcsets" -> 6
      [] p = "readback" -> 7
      [] p = "report" -> 8
      [] p = "report_in" -> 9
      [] p = "exited" -> 10

C13_Released ==
    /\ closes \in {0, 1}
    /\ pc # "exited" =>
          /\ closes = 0
          /\ exitStatus = -1
          /\ fdOpen = (pc # "start")
    /\ pc = "exited" =>
          /\ ~fdOpen
          /\ closes = IF diag \in {"usage", "open"} THEN 0 ELSE 1
          /\ exitStatus \in {0, 1}
          /\ (exitStatus = 0) =
                (outLine # NotPrinted /\ inLine # NotPrinted)
          /\ (exitStatus = 0) = (diag = "")
          /\ (exitStatus = 1) => (inLine = NotPrinted)

C13_ReleaseAndTermination ==
    /\ []C13_Released
    /\ [][C13_Position(pc') > C13_Position(pc)]_vars
    /\ <>(pc = "exited")

\* a request rejected after the device was opened: closed once, status 1
C13_Witness ==
    /\ pc = "exited"
    /\ diag = "split"
    /\ closes = 1 /\ ~fdOpen
    /\ exitStatus = 1
    /\ Len(log) >= 1

\* the encoding of a non-zero input rate on its own: the table's constant,
\* BOTHER for a rate the table lacks
OwnEncoding(r) == IF InTable(r) THEN ConstantOf(r) ELSE BOTHER

(***************************************************************************)
(* C14  Split install, as claimed: with IBSHIFT, a request whose non-zero  *)
(* input rate differs from its output rate has every TCSETS(2) it issues   *)
(* carry the input rate's own encoding, not B0, in the input field, and    *)
(* with BOTHER c_ispeed is the input rate; under every combination of      *)
(* capabilities, the output rate carried by the B38400 alias with input    *)
(* rate 38400 included.                                                    *)
(***************************************************************************)
C14_SplitInstall ==
    (hasIBSHIFT /\ argc = 4 /\ argIn # 0 /\ argIn # argOut /\ SetIssued)
    =>
        /\ setArg.ibaud = OwnEncoding(argIn)
        /\ setArg.ibaud # B0
        /\ hasBOTHER => setArg.ispeed = argIn

(***************************************************************************)
(* C15  Effective-rate derivation.  For the settings tio holds when the    *)
(* rates are printed: the output rate printed is the resolver's answer     *)
(* when CBAUD is B38400, otherwise c_ospeed with BOTHER, and without it    *)
(* the table's rate for CBAUD, unknown when the table lacks those bits.    *)
(* The input rate printed is derived from the input field, from CBAUD      *)
(* when that field is B0 or there is no IBSHIFT: the resolver's answer     *)
(* when the field is B38400, otherwise c_ispeed with BOTHER, and without   *)
(* it the table's rate for the field or unknown.  Hence a report-only run  *)
(* on a device with CBAUD B38400, input field B0 and ASYNC_SPD_WARP,       *)
(* whose sideband reads succeed, prints 460800 for both directions.        *)
(***************************************************************************)
C15_LookupRate(b) ==
    IF \E i \in 1..Len(map) : map[i][1] = b
    THEN map[CHOOSE i \in 1..Len(map) : map[i][1] = b][2]
    ELSE UINT_MAX

C15_EffectiveRate ==
    /\ (outLine # NotPrinted) =>
          outLine = IF tio.cbaud = B38400
                    THEN get_spd_B38400_alias(OutReadOk, kser)
                    ELSE IF hasBOTHER THEN tio.ospeed
                    ELSE C15_LookupRate(tio.cbaud)
    /\ (inLine # NotPrinted) =>
          LET f == IF hasIBSHIFT /\ tio.ibaud # B0 THEN tio.ibaud
                   ELSE tio.cbaud
          IN  inLine = IF f = B38400
                       THEN get_spd_B38400_alias(InReadOk, kser)
                       ELSE IF hasBOTHER THEN tio.ispeed
                       ELSE C15_LookupRate(f)
    /\ (Succeeded /\ ~Configures /\ tio.cbaud = B38400 /\ tio.ibaud = B0
          /\ kser.spd = ASYNC_SPD_WARP /\ OutReadOk /\ InReadOk)
          => (outLine = 460800 /\ inLine = 460800)

\* the report-only run on B38400 with ASYNC_SPD_WARP, BOTHER available
C15_Witness ==
    /\ Succeeded /\ ~Configures
    /\ hasBOTHER /\ hasIBSHIFT
    /\ tio.cbaud = B38400 /\ tio.ibaud = B0
    /\ tio.ospeed = 38400
    /\ kser.spd = ASYNC_SPD_WARP
    /\ OutReadOk /\ InReadOk
    /\ outLine = 460800 /\ inLine = 460800

(***************************************************************************)
(* C16  Report-only runs are read-only.  A run with the device argument    *)
(* alone issues no TCSETS(2) and no TIOCSSERIAL; the device's settings     *)
(* and sideband stay as they were at the start; the ioctls it issues are   *)
(* one TCGETS(2) and then TIOCGSERIAL only, one for each direction whose   *)
(* field is B38400, so at most two.                                        *)
(***************************************************************************)
C16_ReportOnly ==
    (argc = 2) =>
        /\ ~SetIssued
        /\ Count("TCSETS") = 0
        /\ Count("TIOCSSERIAL") = 0
        /\ ktio = ktio0
        /\ kser = kser0
        /\ Count("TCGETS") <= 1
        /\ (Len(log) >= 1) => log[1].op = "TCGETS"
        /\ Count("TIOCGSERIAL") <= 2
        /\ Succeeded =>
              /\ tio = ktio0
              /\ Count("TCGETS") = 1
              /\ Count("TIOCGSERIAL") =
                    (IF OutputField(tio) = B38400 THEN 1 ELSE 0)
                    + (IF InputField(tio, hasIBSHIFT) = B38400 THEN 1 ELSE 0)

\* a report that resolved both directions: three ioctls, device as before
C16_Witness ==
    /\ argc = 2
    /\ Succeeded
    /\ Count("TIOCGSERIAL") = 2
    /\ Len(log) = 3
    /\ kser0.spd = ASYNC_SPD_SHI
    /\ kser = kser0 /\ ktio = ktio0

(***************************************************************************)
(* C17  Rejected requests leave the device untouched, as claimed: a run    *)
(* that ends with a validation diagnostic ("baud rate N is unsupported",   *)
(* "input baud rate N is unsupported", "input baud rate cannot be zero",   *)
(* "split baud rates are unsupported") has changed neither the device's    *)
(* settings nor its sideband, whatever the capabilities and the rates.     *)
(***************************************************************************)
C17_RejectedUntouched ==
    (pc = "exited"
       /\ diag \in {"unsupported", "input_unsupported", "zero_input", "split"})
    =>
        /\ ktio = ktio0
        /\ kser = kser0
        /\ Count("TCSETS") = 0
        /\ Count("TIOCSSERIAL") = 0

====
